---- MODULE Spec2Model ----
(***************************************************************************)
(* Payment verification relay (src/server.js): the long-running Express    *)
(* server route POST /verify-payment and the serverless handler            *)
(* (module.exports), both relaying one verify-by-reference call to the     *)
(* payment gateway and reconciling amount and currency.                    *)
(*                                                                         *)
(* JavaScript values are tagged records.  Numbers are decimal fixed-point  *)
(* values w + f / Scale with 0 <= f < Scale (binary floating-point error   *)
(* of IEEE doubles is not modelled); strings are sequences of characters.  *)
(***************************************************************************)
EXTENDS Integers, Sequences, FiniteSets

\* Fractional decimal digits a number keeps in the model.
FracDigits == 3

\* Requests submitted in one behaviour.
MaxRequests == 2

RECURSIVE Pow10(_)
Pow10(n) == IF n = 0 THEN 1 ELSE 10 * Pow10(n - 1)

Scale == Pow10(FracDigits)

(***************************************************************************)
(* JavaScript values                                                       *)
(***************************************************************************)
Undefined == [t |-> "undefined"]
Null == [t |-> "null"]
NaN == [t |-> "NaN"]
EmptyObject == [t |-> "object"]
Bool(b) == [t |-> "boolean", b |-> b]
Str(s) == [t |-> "string", s |-> s]
Num(w, f) == [t |-> "number", w |-> w, f |-> f]
Int2Num(n) == Num(n, 0)

\* An error message or a fixed response text (never inspected, only passed on).
Msg(m) == [t |-> "message", m |-> m]

\* JavaScript truthiness, as used by `!x`, `a && b` and `a || b`.
Truthy(v) ==
  CASE v.t = "undefined" -> FALSE
    [] v.t = "null" -> FALSE
    [] v.t = "NaN" -> FALSE
    [] v.t = "boolean" -> v.b
    [] v.t = "string" -> v.s # <<>>
    [] v.t = "number" -> ~(v.w = 0 /\ v.f = 0)
    [] v.t = "message" -> v.m # ""
    [] OTHER -> TRUE

Digits == <<"0", "1", "2", "3", "4", "5", "6", "7", "8", "9">>
IsDigit(c) == \E i \in 1..10 : Digits[i] = c
DigitVal(c) == (CHOOSE i \in 1..10 : Digits[i] = c) - 1

RECURSIVE DigitsValue(_)
\* The integer a sequence of digits denotes.
DigitsValue(ds) ==
  IF ds = <<>> THEN 0
  ELSE 10 * DigitsValue(SubSeq(ds, 1, Len(ds) - 1)) + DigitVal(ds[Len(ds)])

AllDigits(ds) == \A i \in 1..Len(ds) : IsDigit(ds[i])

IndexOf(s, c) ==
  IF \E i \in 1..Len(s) : s[i] = c
  THEN CHOOSE i \in 1..Len(s) : s[i] = c /\ \A j \in 1..(i - 1) : s[j] # c
  ELSE 0

\* The fraction digits ds (at most FracDigits of them) in units of 1/Scale.
FracValue(ds) == DigitsValue(ds) * Pow10(FracDigits - Len(ds))

Negate(n) == IF n.f = 0 THEN Num(0 - n.w, 0) ELSE Num(0 - n.w - 1, Scale - n.f)

\* An unsigned decimal literal: digits, optionally a point and more digits.
UnsignedToNumber(s) ==
  LET p == IndexOf(s, ".")
      ip == IF p = 0 THEN s ELSE SubSeq(s, 1, p - 1)
      fp == IF p = 0 THEN <<>> ELSE SubSeq(s, p + 1, Len(s))
  IN IF /\ AllDigits(ip) /\ AllDigits(fp)
        /\ Len(ip) + Len(fp) > 0
        /\ Len(fp) <= FracDigits
     THEN Num(DigitsValue(ip), FracValue(fp))
     ELSE NaN

\* Number(<string>): the empty string is 0, a decimal literal its value,
\* anything else NaN.
StringToNumber(s) ==
  IF s = <<>> THEN Num(0, 0)
  ELSE IF s[1] = "-"
       THEN LET m == UnsignedToNumber(Tail(s))
            IN IF m.t = "NaN" THEN NaN ELSE Negate(m)
       ELSE UnsignedToNumber(s)

\* Number(v)
ToNumber(v) ==
  CASE v.t = "number" -> v
    [] v.t = "string" -> StringToNumber(v.s)
    [] v.t = "null" -> Num(0, 0)
    [] v.t = "boolean" -> IF v.b THEN Num(1, 0) ELSE Num(0, 0)
    [] OTHER -> NaN

\* Number.isNaN(v)
IsNaN(v) == v.t = "NaN"

\* Mutant: Math.floor in place of Math.round.
MathFloor(n) == n.w

\* Math.round(n): the nearest integer, halves towards +Infinity.
MathRound(n) == IF 2 * n.f >= Scale THEN n.w + 1 ELSE n.w

\* n * 100
Times100(n) == Num(100 * n.w + ((100 * n.f) \div Scale), (100 * n.f) % Scale)

\* a === b for a number a and an integer b
StrictEqualsInt(a, b) == a.t = "number" /\ a.f = 0 /\ a.w = b

Lower == <<"a", "b", "c", "d", "e", "f", "g", "h", "i", "j", "k", "l", "m",
           "n", "o", "p", "q", "r", "s", "t", "u", "v", "w", "x", "y", "z">>
Upper == <<"A", "B", "C", "D", "E", "F", "G", "H", "I", "J", "K", "L", "M",
           "N", "O", "P", "Q", "R", "S", "T", "U", "V", "W", "X", "Y", "Z">>

UpperChar(c) ==
  IF \E i \in 1..26 : Lower[i] = c
  THEN Upper[CHOOSE i \in 1..26 : Lower[i] = c]
  ELSE c

\* String.prototype.toUpperCase
ToUpperCase(s) == [i \in 1..Len(s) |-> UpperChar(s[i])]

\* Whether v has a method toUpperCase (only strings do).
HasToUpperCase(v) == v.t = "string"

(***************************************************************************)
(* amountsMatch (both copies of the helper are the same text)              *)
(***************************************************************************)
\* Mutant: only the smallest-unit reading is compared.
amountsMatchSmallestOnly(clientAmountRaw, txAmount) ==
  IF clientAmountRaw.t = "undefined" \/ clientAmountRaw.t = "null" THEN TRUE
  ELSE LET parsed == ToNumber(clientAmountRaw)
       IN IF IsNaN(parsed) THEN FALSE
          ELSE StrictEqualsInt(ToNumber(txAmount), MathRound(parsed))

amountsMatch(clientAmountRaw, txAmount) ==
  IF clientAmountRaw.t = "undefined" \/ clientAmountRaw.t = "null" THEN TRUE
  ELSE LET parsed == ToNumber(clientAmountRaw)
       IN IF IsNaN(parsed) THEN FALSE
          ELSE LET asSmallest == MathRound(parsed)
                   asMainTimes100 == MathRound(Times100(parsed))
               IN \/ StrictEqualsInt(ToNumber(txAmount), asSmallest)
                  \/ StrictEqualsInt(ToNumber(txAmount), asMainTimes100)

(***************************************************************************)
(* Requests, gateway replies, responses                                    *)
(***************************************************************************)
\* A parsed JSON body {reference, currency, amount}; a property that is not
\* sent is Undefined.  (email is destructured and never used.)
Body(reference, currency, amount) ==
  [t |-> "body", reference |-> reference, currency |-> currency, amount |-> amount]

\* The gateway's transaction record (paystackData.data).
Tx(status, amount, currency) ==
  [t |-> "tx", status |-> status, amount |-> amount, currency |-> currency]

\* The gateway's reply body {status, message, data}.
Wrapper(data) == [t |-> "wrapper", data |-> data]

\* v.data
PropData(v) == IF v.t \in {"wrapper", "response"} THEN v.data ELSE Undefined

\* The error axios rejects with: err.response is set when the gateway answered
\* with a non-2xx status.
AxiosError(response, message) == [response |-> response, message |-> message]
ErrorResponse(data) == [t |-> "response", data |-> data]
TypeError(message) == [response |-> Undefined, message |-> Msg(message)]

\* a || b
Or(a, b) == IF Truthy(a) THEN a ELSE b

\* err.response?.data
ErrResponseData(err) ==
  IF err.response.t = "undefined" THEN Undefined ELSE PropData(err.response)

\* res.status(status).json({verified, data, error}); JSON drops undefined keys.
Json(status, verified, data, error) ==
  [status |-> status, headers |-> {},
   body |-> [t |-> "json", verified |-> verified, data |-> data, error |-> error]]

\* encodeURIComponent: unreserved characters pass, "/" and " " are escaped.
RECURSIVE encodeURIComponent(_)
encodeURIComponent(s) ==
  IF s = <<>> THEN <<>>
  ELSE (CASE s[1] = "/" -> <<"%", "2", "F">>
          [] s[1] = " " -> <<"%", "2", "0">>
          [] OTHER -> <<s[1]>>) \o encodeURIComponent(Tail(s))

\* axios.get(url, {headers: {Authorization: `Bearer ${key}`}, timeout: 10000})
AxiosGet(reference, key) ==
  [path |-> encodeURIComponent(reference.s), authorization |-> key, timeout |-> 10000]

(***************************************************************************)
(* Inputs                                                                  *)
(***************************************************************************)
\* A number written as a decimal literal.
Dec(s) == StringToNumber(s)

NGN == <<"N", "G", "N">>
ngn == <<"n", "g", "n">>
usd == <<"u", "s", "d">>

References == {Undefined, Str(<<>>), Str(<<"T", "/", "1">>)}

ClientCurrencies == {Undefined, Str(<<>>), Str(NGN), Str(ngn), Str(usd), Int2Num(566)}

ClientAmounts ==
  {Undefined, Null, EmptyObject,
   Int2Num(7500000), Int2Num(75000), Int2Num(12345),
   Dec(<<"1", ".", "9", "9", "5">>), Dec(<<"2", ".", "5">>),
   Str(<<"7", "5", "0", "0", "0", "0", "0">>),
   Str(<<"7", "5", "0", "0", "0", ".", "0", "0">>),
   Str(<<"-", "2", ".", "5">>), Str(<<"a", "b", "c">>), Str(<<>>), Bool(TRUE)}

Bodies ==
  {Body(r, c, a) : r \in References, c \in ClientCurrencies, a \in ClientAmounts}

\* Undefined is a request that carries no body.
Requests ==
  {[method |-> "POST", body |-> b] : b \in Bodies \cup {Undefined}}
    \cup {[method |-> m, body |-> Undefined] : m \in {"OPTIONS", "GET"}}
    \cup {[method |-> "GET", body |-> Body(Str(<<"T", "/", "1">>), Undefined, Undefined)]}

GatewayStatuses == {"success", "failed", "abandoned"}
GatewayAmounts ==
  {Undefined, Int2Num(7500000), Int2Num(250), Int2Num(200), Int2Num(3), Int2Num(0)}
GatewayCurrencies == {Undefined, Str(<<>>), Str(NGN)}

Transactions ==
  {Tx(s, a, c) : s \in GatewayStatuses, a \in GatewayAmounts, c \in GatewayCurrencies}

ErrorPayload == [t |-> "payload", message |-> "Transaction reference not found"]

\* What the gateway call ends with: a 2xx reply and its body, or a rejection.
GatewayOutcomes ==
  {[t |-> "resolved", data |-> d] :
      d \in {Str(<<>>), Wrapper(Undefined), Wrapper(Null)}
              \cup {Wrapper(tx) : tx \in Transactions}}
    \cup {[t |-> "rejected", err |-> e] :
      e \in {AxiosError(Undefined, Msg("Network Error")),
             AxiosError(Undefined, Msg("timeout of 10000ms exceeded")),
             AxiosError(ErrorResponse(ErrorPayload),
                        Msg("Request failed with status code 400")),
             AxiosError(ErrorResponse(Str(<<>>)),
                        Msg("Request failed with status code 502"))}}

SecretKeys == {Undefined, Str(<<"s", "k">>)}

(***************************************************************************)
(* State                                                                   *)
(***************************************************************************)
VARIABLES
  env,       \* process.env.PAYSTACK_SECRET_KEY, the same for both deployments
  server,    \* the server process: "starting", "exited" or "listening"
  request,   \* the request sent to both deployments, or NoRequest
  gateway,   \* how the gateway call for this request's reference ends
  srv,       \* the server route's invocation for the request
  fn,        \* the serverless handler's invocation for the request
  served     \* requests submitted so far

vars == <<env, server, request, gateway, srv, fn, served>>

NoRequest == [method |-> "none", body |-> Undefined]

\* An invocation: pc is "idle", "awaiting" (suspended in `await axios.get`) or
\* "done"; body holds the destructured request body across the await; calls
\* are the outbound calls made and responses the responses sent.
Idle == [pc |-> "idle", body |-> Undefined, calls |-> <<>>, responses |-> <<>>]

Init ==
  /\ env \in SecretKeys
  /\ server = "starting"
  /\ request = NoRequest
  /\ gateway = [t |-> "none"]
  /\ srv = Idle
  /\ fn = Idle
  /\ served = 0

(***************************************************************************)
(* The verification both variants run on the gateway's reply               *)
(***************************************************************************)
\* currency && tx.currency && currency.toUpperCase() !== tx.currency.toUpperCase()
\* throws a TypeError when a truthy operand is no string.
CurrencyThrows(currency, tx) ==
  /\ Truthy(currency)
  /\ Truthy(tx.currency)
  /\ ~HasToUpperCase(currency) \/ ~HasToUpperCase(tx.currency)

\* The TypeError that comparison throws.
CurrencyTypeError(currency, tx) ==
  IF ~HasToUpperCase(currency)
  THEN TypeError("currency.toUpperCase is not a function")
  ELSE TypeError("tx.currency.toUpperCase is not a function")

CurrencyMismatch(currency, tx) ==
  /\ Truthy(currency)
  /\ Truthy(tx.currency)
  /\ ToUpperCase(currency.s) # ToUpperCase(tx.currency.s)

\* Mutant: the currency check assigns verified instead of only lowering it.
VerifiedCurrencyOverwrites(body, tx) ==
  LET v0 == (tx.status = "success")
      v1 == IF body.amount.t # "undefined" /\ body.amount.t # "null"
            THEN (IF amountsMatch(body.amount, tx.amount) THEN v0 ELSE FALSE)
            ELSE v0
  IN IF Truthy(body.currency) /\ Truthy(tx.currency)
     THEN ~CurrencyMismatch(body.currency, tx)
     ELSE v1

\* Mutant: a request without an amount counts as an amount mismatch.
VerifiedRequiresAmount(body, tx) ==
  LET v0 == (tx.status = "success")
      v1 == IF body.amount.t # "undefined" /\ body.amount.t # "null"
               /\ amountsMatch(body.amount, tx.amount)
            THEN v0 ELSE FALSE
  IN IF CurrencyMismatch(body.currency, tx) THEN FALSE ELSE v1

\* let verified = (tx.status === 'success'); then the amount and currency checks
Verified(body, tx) ==
  LET v0 == (tx.status = "success")
      v1 == IF body.amount.t # "undefined" /\ body.amount.t # "null"
            THEN (IF amountsMatch(body.amount, tx.amount) THEN v0 ELSE FALSE)
            ELSE v0
  IN IF CurrencyMismatch(body.currency, tx) THEN FALSE ELSE v1

\* !paystackData || !paystackData.data
InvalidShape(paystackData) == ~Truthy(paystackData) \/ ~Truthy(PropData(paystackData))

\* Mutant: the status is left at its default.
InvalidUpstreamDefaultStatus ==
  Json(200, FALSE, Undefined, Msg("Invalid response from Paystack"))

\* res.status(500).json({ verified: false, error: 'Invalid response from Paystack' })
InvalidUpstream == Json(500, FALSE, Undefined, Msg("Invalid response from Paystack"))

\* Mutant: the message is preferred to the upstream payload.
ServerCatchMessageFirst(err) ==
  Json(500, FALSE, Undefined, Or(err.message, ErrResponseData(err)))

\* The server's catch block.
ServerCatch(err) == Json(500, FALSE, Undefined, Or(ErrResponseData(err), err.message))

\* The handler's catch block.
HandlerCatch(err) ==
  Json(500, FALSE, Undefined,
       Or(Or(ErrResponseData(err), err.message), Msg("Unknown error")))

\* The server route after `await axios.get` settles.
ServerSettle(body, outcome) ==
  IF outcome.t = "rejected" THEN ServerCatch(outcome.err)
  ELSE LET paystackData == outcome.data
       IN IF InvalidShape(paystackData)
          THEN InvalidUpstream
          ELSE LET tx == PropData(paystackData)
               IN IF CurrencyThrows(body.currency, tx)
                  THEN ServerCatch(CurrencyTypeError(body.currency, tx))
                  ELSE Json(200, Verified(body, tx), tx, Undefined)

\* The handler after `await axios.get` settles.
HandlerSettle(body, outcome) ==
  IF outcome.t = "rejected" THEN HandlerCatch(outcome.err)
  ELSE LET paystackData == outcome.data
       IN IF InvalidShape(paystackData)
          THEN InvalidUpstream
          ELSE LET tx == PropData(paystackData)
               IN IF CurrencyThrows(body.currency, tx)
                  THEN HandlerCatch(CurrencyTypeError(body.currency, tx))
                  ELSE Json(200, Verified(body, tx), tx, Undefined)

(***************************************************************************)
(* Actions                                                                 *)
(***************************************************************************)
\* Mutant: the server listens whether or not the key is set.
ServerStartupNoExit ==
  /\ server = "starting"
  /\ server' = "listening"
  /\ UNCHANGED <<env, request, gateway, srv, fn, served>>

\* Module load of the server: read the key, exit without it, else listen.
ServerStartup ==
  /\ server = "starting"
  /\ server' = IF ~Truthy(env) THEN "exited" ELSE "listening"
  /\ UNCHANGED <<env, request, gateway, srv, fn, served>>

\* A client sends a request; the gateway's answer for its reference is fixed
\* by the gateway, outside the program.
Submit ==
  /\ served < MaxRequests
  /\ request = NoRequest
  /\ \E r \in Requests, g \in GatewayOutcomes :
       /\ request' = r
       /\ gateway' = g
  /\ srv' = Idle
  /\ fn' = Idle
  /\ served' = served + 1
  /\ UNCHANGED <<env, server>>

\* bodyParser.json(): the values req.body can have for a request.  A request
\* without a body gets {} (body-parser 1.x) or is left undefined (2.x).
bodyParserJson(raw) ==
  IF raw.t = "undefined" THEN {Body(Undefined, Undefined, Undefined), Undefined}
  ELSE {raw}

\* The server route up to `await axios.get` (only POST is registered).
ServerRoute ==
  /\ server = "listening"
  /\ request.method = "POST"
  /\ srv.pc = "idle"
  /\ \E body \in bodyParserJson(request.body) :
       IF body.t = "undefined"
       THEN srv' = [srv EXCEPT !.pc = "done",
                      !.responses = Append(@, ServerCatch(TypeError(
                        "Cannot destructure property 'reference' of 'req.body' as it is undefined.")))]
       ELSE IF ~Truthy(body.reference)
       THEN srv' = [srv EXCEPT !.pc = "done",
                      !.responses = Append(@, Json(400, FALSE, Undefined, Msg("Missing reference")))]
       ELSE srv' = [srv EXCEPT !.pc = "awaiting", !.body = body,
                      !.calls = Append(@, AxiosGet(body.reference, env))]
  /\ UNCHANGED <<env, server, request, gateway, fn, served>>

\* The server route resumes when the gateway call settles.
ServerResume ==
  /\ srv.pc = "awaiting"
  /\ srv' = [srv EXCEPT !.pc = "done",
               !.responses = Append(@, ServerSettle(srv.body, gateway))]
  /\ UNCHANGED <<env, server, request, gateway, fn, served>>

\* The preflight answer of the handler.
Preflight ==
  [status |-> 204,
   headers |-> {<<"Access-Control-Allow-Origin", "*">>,
                <<"Access-Control-Allow-Methods", "POST, OPTIONS">>,
                <<"Access-Control-Allow-Headers", "Content-Type">>},
   body |-> Str(<<>>)]

\* The serverless handler up to `await axios.get`.
HandlerInvoke ==
  /\ request # NoRequest
  /\ fn.pc = "idle"
  /\ LET body == IF Truthy(request.body) THEN request.body
                 ELSE Body(Undefined, Undefined, Undefined)
     IN IF request.method = "OPTIONS"
        THEN fn' = [fn EXCEPT !.pc = "done", !.responses = Append(@, Preflight)]
        ELSE IF request.method # "POST"
        THEN fn' = [fn EXCEPT !.pc = "done",
                      !.responses = Append(@, Json(405, FALSE, Undefined, Msg("Method Not Allowed")))]
        ELSE IF ~Truthy(env)
        THEN fn' = [fn EXCEPT !.pc = "done",
                      !.responses = Append(@, Json(500, FALSE, Undefined, Msg("Server misconfiguration")))]
        ELSE IF ~Truthy(body.reference)
        THEN fn' = [fn EXCEPT !.pc = "done",
                      !.responses = Append(@, Json(400, FALSE, Undefined, Msg("Missing reference")))]
        ELSE fn' = [fn EXCEPT !.pc = "awaiting", !.body = body,
                      !.calls = Append(@, AxiosGet(body.reference, env))]
  /\ UNCHANGED <<env, server, request, gateway, srv, served>>

\* The handler resumes when the gateway call settles.
HandlerResume ==
  /\ fn.pc = "awaiting"
  /\ fn' = [fn EXCEPT !.pc = "done",
              !.responses = Append(@, HandlerSettle(fn.body, gateway))]
  /\ UNCHANGED <<env, server, request, gateway, srv, served>>

\* Both invocations have ended; nothing of the request is kept.
Finish ==
  /\ request # NoRequest
  /\ fn.pc = "done"
  /\ srv.pc # "awaiting"
  /\ request' = NoRequest
  /\ gateway' = [t |-> "none"]
  /\ srv' = Idle
  /\ fn' = Idle
  /\ UNCHANGED <<env, server, served>>

Next ==
  \/ ServerStartup
  \/ Submit
  \/ ServerRoute
  \/ ServerResume
  \/ HandlerInvoke
  \/ HandlerResume
  \/ Finish

Spec == Init /\ [][Next]_vars

(***************************************************************************)
(* Vocabulary of the properties                                            *)
(***************************************************************************)
\* The body the client sent ({} when it sent none).
Sent == IF request.body.t = "undefined" THEN Body(Undefined, Undefined, Undefined)
        ELSE request.body

IsPost == request.method = "POST"
Answered(i) == i.pc = "done" /\ Len(i.responses) = 1
Reply(i) == i.responses[1]
IsJson(i) == Answered(i) /\ Reply(i).body.t = "json"

\* The gateway call returned a body that holds the inner transaction record.
GatewayHasTx ==
  /\ gateway.t = "resolved"
  /\ gateway.data.t = "wrapper"
  /\ gateway.data.data.t = "tx"
GatewayTx == gateway.data.data

\* The gateway call returned an empty body or one without the inner data.
GatewayMalformed == gateway.t = "resolved" /\ ~GatewayHasTx

\* The invocation made its gateway call and has answered.
AnsweredAfterCall(i) == Answered(i) /\ Len(i.calls) > 0

MissingReference == ~Truthy(Sent.reference)
AmountSupplied == Sent.amount.t \notin {"undefined", "null"}
CurrencySupplied == Truthy(Sent.currency)

\* Two characters that are the same letter, whatever their case.
SameLetter(c, d) ==
  \/ c = d
  \/ \E k \in 1..26 : {c, d} = {Lower[k], Upper[k]}

EqualIgnoringCase(a, b) ==
  /\ Len(a) = Len(b)
  /\ \A k \in 1..Len(a) : SameLetter(a[k], b[k])

\* The supplied currency is a string equal, ignoring case, to the gateway's.
CurrencyAgrees(tx) ==
  /\ Sent.currency.t = "string"
  /\ tx.currency.t = "string"
  /\ EqualIgnoringCase(Sent.currency.s, tx.currency.s)

\* k is v rounded to the nearest integer (halves up): k - 1/2 <= v < k + 1/2.
IsRoundOf(k, v) ==
  \/ k = v.w /\ 2 * v.f < Scale
  \/ k = v.w + 1 /\ 2 * v.f >= Scale

\* k is 100 * v rounded to the nearest integer.
IsRoundOfTimes100(k, v) ==
  LET j == k - 100 * v.w
  IN /\ j \in 0..100
     /\ (2 * j - 1) * Scale <= 200 * v.f
     /\ 200 * v.f < (2 * j + 1) * Scale

\* The rule of the amount reconciliation, stated on the values.
AmountRule(raw, txAmount) ==
  LET v == ToNumber(raw)
  IN /\ v.t = "number"
     /\ txAmount.t = "number"
     /\ txAmount.f = 0
     /\ IsRoundOf(txAmount.w, v) \/ IsRoundOfTimes100(txAmount.w, v)

\* A / 100 for an integer A >= 0.
Div100(A) == Num(A \div 100, ((A % 100) * Scale) \div 100)

(***************************************************************************)
(* C1                                                                      *)
(***************************************************************************)
\* C1 as stated: a response carries verified = true only if the gateway status
\* is "success", and no amount was supplied or it matches, and no currency
\* was supplied or it equals the gateway currency ignoring case.
C1_AsStated ==
  \A i \in {srv, fn} :
    (IsJson(i) /\ Reply(i).body.verified) =>
      /\ GatewayHasTx
      /\ GatewayTx.status = "success"
      /\ ~AmountSupplied \/ AmountRule(Sent.amount, GatewayTx.amount)
      /\ ~CurrencySupplied \/ CurrencyAgrees(GatewayTx)

\* C1 amended: as C1, with the currency condition also met when the gateway
\* record reports no currency (the comparison runs only when both sides carry
\* one).
C1_VerifiedOnlyIf ==
  \A i \in {srv, fn} :
    (IsJson(i) /\ Reply(i).body.verified) =>
      /\ GatewayHasTx
      /\ GatewayTx.status = "success"
      /\ ~AmountSupplied \/ AmountRule(Sent.amount, GatewayTx.amount)
      /\ \/ ~CurrencySupplied
         \/ ~Truthy(GatewayTx.currency)
         \/ CurrencyAgrees(GatewayTx)

\* A verified answer where amount and currency were both supplied and the
\* currencies differ in case only.
C1_Witness ==
  /\ IsJson(srv) /\ Reply(srv).body.verified
  /\ IsJson(fn) /\ Reply(fn).body.verified
  /\ AmountSupplied
  /\ Sent.currency = Str(ngn)
  /\ GatewayTx.currency = Str(NGN)

(***************************************************************************)
(* C2                                                                      *)
(***************************************************************************)
\* C2: a POST request without a reference is answered 400 with verified:false
\* by both variants, also when it has no body, and no gateway call is made.
\* (Stated with the credential configured; without it the handler answers 500
\* before it looks at the reference, see C10.)
C2_MissingReference400 ==
  \A i \in {srv, fn} :
    (IsPost /\ MissingReference /\ Truthy(env)) =>
      /\ i.calls = <<>>
      /\ i.pc # "awaiting"
      /\ Answered(i) =>
           /\ Reply(i).status = 400
           /\ Reply(i).body.t = "json"
           /\ Reply(i).body.verified = FALSE

(***************************************************************************)
(* C3                                                                      *)
(***************************************************************************)
\* C3: when the gateway call returns a body that is empty or lacks the inner
\* data object, the answer is 500 with verified:false and the error
\* "Invalid response from Paystack", never a 200.
C3_MalformedUpstream500 ==
  \A i \in {srv, fn} :
    (AnsweredAfterCall(i) /\ GatewayMalformed) =>
      /\ Reply(i).status = 500
      /\ Reply(i).body.t = "json"
      /\ Reply(i).body.verified = FALSE
      /\ Reply(i).body.error = Msg("Invalid response from Paystack")
      /\ Reply(i).body.data = Undefined

C3_Witness ==
  /\ AnsweredAfterCall(srv) /\ AnsweredAfterCall(fn)
  /\ GatewayMalformed
  /\ gateway.data = Wrapper(Null)
  /\ AmountSupplied /\ CurrencySupplied

(***************************************************************************)
(* C4                                                                      *)
(***************************************************************************)
\* C4: whenever the gateway call returns the inner transaction record, the
\* answer is 200 with {verified, data: the record unchanged}, for every
\* supplied amount and currency; verified is false when the status is not
\* "success".
C4_Always200 ==
  \A i \in {srv, fn} :
    (AnsweredAfterCall(i) /\ IsPost /\ GatewayHasTx) =>
      /\ Reply(i).status = 200
      /\ Reply(i).body.t = "json"
      /\ Reply(i).body.data = GatewayTx
      /\ Reply(i).body.error = Undefined
      /\ GatewayTx.status # "success" => Reply(i).body.verified = FALSE

(***************************************************************************)
(* C5                                                                      *)
(***************************************************************************)
\* C5: a gateway record with status "success" and a request that supplies
\* neither amount nor currency give 200 with verified:true, whatever the
\* record's amount and currency.
C5_SuccessNoChecks ==
  \A i \in {srv, fn} :
    (/\ AnsweredAfterCall(i) /\ IsPost /\ GatewayHasTx
     /\ GatewayTx.status = "success"
     /\ Sent.amount = Undefined /\ Sent.currency = Undefined) =>
      /\ Reply(i).status = 200
      /\ Reply(i).body.t = "json"
      /\ Reply(i).body.verified = TRUE

C5_Witness ==
  /\ AnsweredAfterCall(srv) /\ AnsweredAfterCall(fn)
  /\ GatewayHasTx
  /\ GatewayTx = Tx("success", Int2Num(250), Str(NGN))
  /\ Sent.amount = Undefined /\ Sent.currency = Undefined
  /\ Reply(srv).body.verified /\ Reply(fn).body.verified

(***************************************************************************)
(* C6                                                                      *)
(***************************************************************************)
\* Gateway amounts A the symmetry is evaluated on, besides those that occur
\* in the requests.
SymmetryAmounts == (0..250) \cup {12345, 7500000}

\* The amount check never lowers verified in this answer.
AmountAccepted(i) ==
  Reply(i).body.verified =
    (GatewayTx.status = "success" /\ ~CurrencyMismatch(Sent.currency, GatewayTx))

\* amountsMatch on both encodings of every amount of SymmetryAmounts.
AmountSymmetry ==
  /\ \A A \in SymmetryAmounts :
       /\ amountsMatch(Int2Num(A), Int2Num(A))
       /\ amountsMatch(Div100(A), Int2Num(A))
  /\ ~amountsMatch(Int2Num(12345), Int2Num(7500000))

C7_AmountReconciliation ==
  \A i \in {srv, fn} :
    (AnsweredAfterCall(i) /\ GatewayHasTx /\ Reply(i).status = 200) =>
      /\ Reply(i).body.verified =
           (/\ GatewayTx.status = "success"
            /\ AmountSupplied => AmountRule(Sent.amount, GatewayTx.amount)
            /\ ~CurrencyMismatch(Sent.currency, GatewayTx))
      /\ (AmountSupplied /\ IsNaN(ToNumber(Sent.amount)))
           => Reply(i).body.verified = FALSE
      /\ AmountSupplied =>
           (amountsMatch(Sent.amount, GatewayTx.amount)
              <=> AmountRule(Sent.amount, GatewayTx.amount))

\* 1.995 against the gateway's 200: only round(1.995 * 100) = 200 matches.
C7_Witness ==
  /\ AnsweredAfterCall(srv) /\ AnsweredAfterCall(fn)
  /\ GatewayHasTx
  /\ GatewayTx.amount = Int2Num(200)
  /\ Sent.amount = Dec(<<"1", ".", "9", "9", "5">>)
  /\ Reply(srv).body.verified /\ Reply(fn).body.verified

(***************************************************************************)
(* C8                                                                      *)
(***************************************************************************)
\* The error the answer carries for a failed call: the upstream payload when
\* the failure has one, else the error's message.
ExpectedError(err) ==
  IF err.response.t = "response" /\ Truthy(err.response.data)
  THEN err.response.data
  ELSE err.message

\* C8: a failed gateway call (network error, timeout, non-2xx) gives exactly
\* one answer, 500 with {verified:false, error: payload or message}; the call
\* is made once and the answer is never a 200.
C8_CallFailure500 ==
  \A i \in {srv, fn} :
    /\ Len(i.calls) <= 1
    /\ \A k \in 1..Len(i.calls) : i.calls[k].timeout = 10000
    /\ Len(i.responses) <= 1
    /\ i.pc = "done" => Len(i.responses) = 1
    /\ (AnsweredAfterCall(i) /\ gateway.t = "rejected") =>
         Reply(i) = Json(500, FALSE, Undefined, ExpectedError(gateway.err))

\* Both variants answered a call that failed with an upstream payload.
C8_Witness ==
  /\ AnsweredAfterCall(srv) /\ AnsweredAfterCall(fn)
  /\ gateway.t = "rejected"
  /\ gateway.err.response = ErrorResponse(ErrorPayload)
  /\ Reply(srv).body.error = ErrorPayload

(***************************************************************************)
(* C9                                                                      *)
(***************************************************************************)
\* C9: with the credential configured, the server route and the serverless
\* handler answer every POST request with the same status and the same body.
C9_SameAnswer ==
  (IsPost /\ Truthy(env) /\ Answered(srv) /\ Answered(fn)) =>
    /\ Reply(srv).status = Reply(fn).status
    /\ Reply(srv).body = Reply(fn).body

(***************************************************************************)
(* C10                                                                     *)
(***************************************************************************)
\* C10: without the credential the server exits before it listens, so it never
\* accepts or answers a request; the handler answers each POST request with
\* 500 and verified:false and makes no gateway call.
C10_MissingCredential ==
  ~Truthy(env) =>
    /\ server # "listening"
    /\ srv = Idle
    /\ fn.calls = <<>> /\ fn.pc # "awaiting"
    /\ (IsPost /\ Answered(fn)) =>
         /\ Reply(fn).status = 500
         /\ Reply(fn).body.t = "json"
         /\ Reply(fn).body.verified = FALSE

\* The server has exited and the handler has answered a POST request.
C10_Witness ==
  /\ ~Truthy(env)
  /\ server = "exited"
  /\ IsPost /\ Answered(fn)
  /\ Truthy(Sent.reference)
====
